---- MODULE Spec2Model ----
(***************************************************************************)
(* A model of the instance-bootstrap layer of propolis:                    *)
(*   - lib/propolis/src/prelude.rs      Mutex / Condvar (panic on poison)  *)
(*   - lib/propolis/src/util/nodrop.rs  NoDropMarker                       *)
(*   - bin/propolis-standalone/src/config.rs  block_backend / parse_cpuid  *)
(* Each component has its own specification (SpecSync, SpecNoDrop,         *)
(* SpecBackend, SpecCpuid) over the component's variables; the variables   *)
(* of the other components stay at their initial values.                   *)
(***************************************************************************)
EXTENDS Integers, Sequences, FiniteSets, TLC

VARIABLES
    \* ---- prelude.rs: one Mutex<T> with its companion Condvar ----
    pc,         \* per thread: where the thread is with respect to the mutex
    holder,     \* the thread that owns the inner lock, or Free
    poisoned,   \* the poison flag of the std mutex
    data,       \* the guarded value T
    inwait,     \* per thread: the Condvar call it is inside, "none" if none
    wokenBy,    \* per thread: what ended its last suspension
    alive,      \* FALSE once into_inner consumed the mutex
    last,       \* the last completed call of the wrapper and what it returned
    \* ---- nodrop.rs ----
    marker,     \* per marker: its life-cycle state
    embedded,   \* per marker: whether it is a field of a containing struct
    consumes,   \* per marker: how many times consume() took effect
    mpanics,    \* per marker: how many panics its Drop raised
    \* ---- config.rs: block_backend(config, dev, log) ----
    dev_options,  \* dev.options: the device's option map
    block_devs,   \* config.block_devs: name -> BlockDevice
    bb_pc,        \* where block_backend is
    bb_parsed,    \* the decoded FileConfig / MemAsyncConfig, once decoded
    bb_workers,   \* the resolved worker count, once resolved (an Option)
    bb_log,       \* what block_backend did so far, in order
    bb_result,    \* what block_backend returned, or the panic that ended it
    \* ---- config.rs: parse_cpuid(config) ----
    main_cpuid_profile,  \* config.main.cpuid_profile (an Option)
    cpuid_profiles,      \* config.cpuid_profiles: name -> CpuidProfile
    cp_pc,        \* where parse_cpuid is
    cp_entries,   \* the entries of the selected profile, in declared order
    cp_next,      \* index of the next entry the loop inserts
    cp_set,       \* the CpuidSet under construction
    cp_result,    \* what parse_cpuid returned
    \* ---- config.rs: Config, through parse and back ----
    cf_doc,       \* the configuration document handed to parse
    cf_pc,        \* "start", "parsed", "serialized", "done" or "error"
    cf_config,    \* the Config parse returned
    cf_out,       \* the document the Config serializes to
    cf_again      \* the Config parsed from that document

syncVars == <<pc, holder, poisoned, data, inwait, wokenBy, alive, last>>
nodropVars == <<marker, embedded, consumes, mpanics>>
backendVars == <<dev_options, block_devs, bb_pc, bb_parsed, bb_workers,
                 bb_log, bb_result>>
cpuidVars == <<main_cpuid_profile, cpuid_profiles, cp_pc, cp_entries,
               cp_next, cp_set, cp_result>>
configVars == <<cf_doc, cf_pc, cf_config, cf_out, cf_again>>
notSync == <<nodropVars, backendVars, cpuidVars, configVars>>
notNoDrop == <<syncVars, backendVars, cpuidVars, configVars>>
notBackend == <<syncVars, nodropVars, cpuidVars, configVars>>
notCpuid == <<syncVars, nodropVars, backendVars, configVars>>
notConfig == <<syncVars, nodropVars, backendVars, cpuidVars>>
vars == <<pc, holder, poisoned, data, inwait, wokenBy, alive, last,
          marker, embedded, consumes, mpanics,
          dev_options, block_devs, bb_pc, bb_parsed, bb_workers,
          bb_log, bb_result,
          main_cpuid_profile, cpuid_profiles, cp_pc, cp_entries,
          cp_next, cp_set, cp_result,
          cf_doc, cf_pc, cf_config, cf_out, cf_again>>

(***************************************************************************)
(* Bounds of the model.                                                    *)
(***************************************************************************)
NThreads == 3
NMarkers == 3

Threads == 1..NThreads
Free == 0

\* The guarded values: the conditions tell zero from non-zero only.
Values == {0, 1}
Markers == 1..NMarkers

(***************************************************************************)
(* prelude.rs: Mutex and Condvar.                                          *)
(*                                                                         *)
(* pc[t]:                                                                  *)
(*   "idle"      not inside any call, holds no guard                       *)
(*   "locking"   inside lock(), suspended until the inner lock is free     *)
(*   "held"      owns a MutexGuard                                         *)
(*   "waiting"   suspended inside Condvar::wait (lock released)            *)
(*   "woken"     woken inside Condvar::wait, has to reacquire the lock     *)
(*   "panicking" a panic is unwinding the thread's stack                   *)
(*   "dead"      the unwinding is over                                     *)
(***************************************************************************)

\* The conditions a caller hands to wait_while: closures over the guarded value.
Conds == {"is_zero", "not_zero"}

\* condition(&mut *guard)
Cond(c, d) == IF c = "is_zero" THEN d = 0 ELSE d # 0

NoCall == [op |-> "none", res |-> "none", locked |-> FALSE, pois |-> FALSE,
           cond |-> FALSE, by |-> "none"]

\* What a call of the wrapper did: op returned res; when it was decided the
\* inner lock was taken (locked), the poison flag was pois,
\* (wait_while) the caller's condition evaluated to cond, and (wait,
\* wait_while) the caller's last suspension was ended by `by`.
Returned(op, res, c, by) ==
    [op |-> op, res |-> res, locked |-> holder # Free, pois |-> poisoned,
     cond |-> c, by |-> by]

InitSync ==
    /\ pc = [t \in Threads |-> "idle"]
    /\ holder = Free
    /\ poisoned = FALSE
    /\ data \in Values
    /\ inwait = [t \in Threads |-> "none"]
    /\ wokenBy = [t \in Threads |-> "none"]
    /\ alive = TRUE
    /\ last = NoCall

\* Mutex::lock, entry: self.0.lock() suspends the caller until the lock is free.
lock_call(t) ==
    /\ alive
    /\ pc[t] = "idle"
    /\ pc' = [pc EXCEPT ![t] = "locking"]
    /\ UNCHANGED <<holder, poisoned, data, inwait, wokenBy, alive, last>>
    /\ UNCHANGED notSync

\* lock() that hands out the guard of a poisoned lock (the error's
\* into_inner()) instead of panicking.
lock_recover(t) ==
    /\ alive
    /\ pc[t] = "locking"
    /\ holder = Free
    /\ holder' = t
    /\ pc' = [pc EXCEPT ![t] = "held"]
    /\ last' = Returned("lock", "Guard", FALSE, "none")
    /\ UNCHANGED <<poisoned, data, inwait, wokenBy, alive>>
    /\ UNCHANGED notSync

\* lock() that does not wait for the lock to be free.
lock_barging(t) ==
    /\ alive
    /\ pc[t] = "locking"
    /\ holder' = t
    /\ IF poisoned
       THEN /\ pc' = [pc EXCEPT ![t] = "panicking"]
            /\ last' = Returned("lock", "Panic", FALSE, "none")
       ELSE /\ pc' = [pc EXCEPT ![t] = "held"]
            /\ last' = Returned("lock", "Guard", FALSE, "none")
    /\ UNCHANGED <<poisoned, data, inwait, wokenBy, alive>>
    /\ UNCHANGED notSync

\* Mutex::lock, return: the inner lock is taken; Ok(guard) is returned as is,
\* Err(PoisonError(guard)) panics with the guard still alive in the scrutinee.
lock(t) ==
    /\ alive
    /\ pc[t] = "locking"
    /\ holder = Free
    /\ holder' = t
    /\ IF poisoned
       THEN /\ pc' = [pc EXCEPT ![t] = "panicking"]
            /\ last' = Returned("lock", "Panic", FALSE, "none")
       ELSE /\ pc' = [pc EXCEPT ![t] = "held"]
            /\ last' = Returned("lock", "Guard", FALSE, "none")
    /\ UNCHANGED <<poisoned, data, inwait, wokenBy, alive>>
    /\ UNCHANGED notSync

\* try_lock() that answers None for every Err of the inner try_lock.
try_lock_swallow(t) ==
    /\ alive
    /\ pc[t] = "idle"
    /\ IF holder # Free \/ poisoned
       THEN /\ last' = Returned("try_lock", "None", FALSE, "none")
            /\ UNCHANGED <<pc, holder>>
       ELSE /\ holder' = t
            /\ pc' = [pc EXCEPT ![t] = "held"]
            /\ last' = Returned("try_lock", "Some", FALSE, "none")
    /\ UNCHANGED <<poisoned, data, inwait, wokenBy, alive>>
    /\ UNCHANGED notSync

\* Mutex::try_lock: Ok(guard) => Some, Err(WouldBlock) => None,
\* Err(Poisoned(_)) => panic (the guard inside the error is still alive).
try_lock(t) ==
    /\ alive
    /\ pc[t] = "idle"
    /\ IF holder # Free
       THEN /\ last' = Returned("try_lock", "None", FALSE, "none")
            /\ UNCHANGED <<pc, holder>>
       ELSE /\ holder' = t
            /\ IF poisoned
               THEN /\ pc' = [pc EXCEPT ![t] = "panicking"]
                    /\ last' = Returned("try_lock", "Panic", FALSE, "none")
               ELSE /\ pc' = [pc EXCEPT ![t] = "held"]
                    /\ last' = Returned("try_lock", "Some", FALSE, "none")
    /\ UNCHANGED <<poisoned, data, inwait, wokenBy, alive>>
    /\ UNCHANGED notSync

\* A thread that can run user code (it is not suspended, panicking or dead).
Running(t) == pc[t] \in {"idle", "held"}

\* &mut self / self: the borrow checker admits the call only when no guard is
\* outstanding and no thread is inside a call on the mutex.
Exclusive(t) ==
    /\ pc[t] = "idle"
    /\ \A u \in Threads \ {t} : pc[u] \in {"idle", "dead"}

\* Mutex::get_mut: Ok(this) => this, else panic.
get_mut(t) ==
    /\ alive
    /\ Exclusive(t)
    /\ IF poisoned
       THEN /\ pc' = [pc EXCEPT ![t] = "panicking"]
            /\ last' = Returned("get_mut", "Panic", FALSE, "none")
            /\ data' = data
       ELSE /\ pc' = pc
            /\ last' = Returned("get_mut", "Value", FALSE, "none")
            /\ data' \in Values
    /\ UNCHANGED <<holder, poisoned, inwait, wokenBy, alive>>
    /\ UNCHANGED notSync

\* Mutex::into_inner: consumes the mutex; Ok(this) => this, else panic.
into_inner(t) ==
    /\ alive
    /\ Exclusive(t)
    /\ alive' = FALSE
    /\ IF poisoned
       THEN /\ pc' = [pc EXCEPT ![t] = "panicking"]
            /\ last' = Returned("into_inner", "Panic", FALSE, "none")
       ELSE /\ pc' = pc
            /\ last' = Returned("into_inner", "Value", FALSE, "none")
    /\ UNCHANGED <<holder, poisoned, data, inwait, wokenBy>>
    /\ UNCHANGED notSync

\* Debug for Mutex: self.0.fmt(f). std formats the value behind a try_lock of
\* its own: the value when the lock is free (poisoned or not), "<locked>" when
\* it is taken. It never panics and leaves the mutex as it was.
fmt(t) ==
    /\ alive
    /\ Running(t)
    /\ last' = Returned("fmt", IF holder # Free THEN "<locked>" ELSE "data",
                        FALSE, "none")
    /\ UNCHANGED <<pc, holder, poisoned, data, inwait, wokenBy, alive>>
    /\ UNCHANGED notSync

\* Writing through the guard (DerefMut of the re-exported MutexGuard).
write(t) ==
    /\ pc[t] = "held"
    /\ \E d \in Values : d # data /\ data' = d
    /\ UNCHANGED <<pc, holder, poisoned, inwait, wokenBy, alive, last>>
    /\ UNCHANGED notSync

\* The guard goes out of scope normally: the lock is released.
unlock(t) ==
    /\ pc[t] = "held"
    /\ holder' = Free
    /\ pc' = [pc EXCEPT ![t] = "idle"]
    /\ UNCHANGED <<poisoned, data, inwait, wokenBy, alive, last>>
    /\ UNCHANGED notSync

\* The holder's own code panics while it owns the guard.
panic_holding(t) ==
    /\ pc[t] = "held"
    /\ pc' = [pc EXCEPT ![t] = "panicking"]
    /\ UNCHANGED <<holder, poisoned, data, inwait, wokenBy, alive, last>>
    /\ UNCHANGED notSync

\* Unwinding drops what the thread owns. Dropping a MutexGuard while the
\* thread is panicking sets the poison flag and releases the lock.
unwind(t) ==
    /\ pc[t] = "panicking"
    /\ pc' = [pc EXCEPT ![t] = "dead"]
    /\ IF holder = t
       THEN holder' = Free /\ poisoned' = TRUE
       ELSE UNCHANGED <<holder, poisoned>>
    /\ UNCHANGED <<data, inwait, wokenBy, alive, last>>
    /\ UNCHANGED notSync

\* Condvar::wait, entry: self.0.wait(guard) releases the lock and suspends
\* the caller, atomically.
wait(t) ==
    /\ pc[t] = "held"
    /\ pc' = [pc EXCEPT ![t] = "waiting"]
    /\ holder' = Free
    /\ inwait' = [inwait EXCEPT ![t] = "wait"]
    /\ wokenBy' = [wokenBy EXCEPT ![t] = "none"]
    /\ UNCHANGED <<poisoned, data, alive, last>>
    /\ UNCHANGED notSync

\* Condvar::wait_while, entry: std's loop
\*     while condition(&mut *guard) { guard = self.wait(guard)?; }  Ok(guard)
\* returns at once when the condition is false, else suspends in wait.
wait_while(t, c) ==
    /\ pc[t] = "held"
    /\ IF Cond(c, data)
       THEN /\ pc' = [pc EXCEPT ![t] = "waiting"]
            /\ holder' = Free
            /\ inwait' = [inwait EXCEPT ![t] = c]
            /\ wokenBy' = [wokenBy EXCEPT ![t] = "none"]
            /\ last' = last
       ELSE /\ last' = Returned("wait_while", "Guard", Cond(c, data), "none")
            /\ UNCHANGED <<pc, holder, inwait, wokenBy>>
    /\ UNCHANGED <<poisoned, data, alive>>
    /\ UNCHANGED notSync

Waiters == {w \in Threads : pc[w] = "waiting"}

\* notify_one() that wakes every waiter.
notify_one_wakes_all(t) ==
    /\ Running(t)
    /\ pc' = [w \in Threads |-> IF w \in Waiters THEN "woken" ELSE pc[w]]
    /\ wokenBy' = [w \in Threads |->
                     IF w \in Waiters THEN "notify" ELSE wokenBy[w]]
    /\ UNCHANGED <<holder, poisoned, data, inwait, alive, last>>
    /\ UNCHANGED notSync

\* Condvar::notify_one: wakes one suspended waiter, if there is any (with no
\* waiter the call changes nothing).
notify_one(t) ==
    /\ Running(t)
    /\ IF Waiters = {}
       THEN UNCHANGED <<pc, wokenBy>>
       ELSE \E w \in Waiters :
               /\ pc' = [pc EXCEPT ![w] = "woken"]
               /\ wokenBy' = [wokenBy EXCEPT ![w] = "notify"]
    /\ UNCHANGED <<holder, poisoned, data, inwait, alive, last>>
    /\ UNCHANGED notSync

\* notify_all() that wakes one waiter only.
notify_all_wakes_one(t) ==
    /\ Running(t)
    /\ IF Waiters = {}
       THEN UNCHANGED <<pc, wokenBy>>
       ELSE \E w \in Waiters :
               /\ pc' = [pc EXCEPT ![w] = "woken"]
               /\ wokenBy' = [wokenBy EXCEPT ![w] = "notify"]
    /\ UNCHANGED <<holder, poisoned, data, inwait, alive, last>>
    /\ UNCHANGED notSync

\* Condvar::notify_all: wakes every suspended waiter.
notify_all(t) ==
    /\ Running(t)
    /\ pc' = [w \in Threads |-> IF w \in Waiters THEN "woken" ELSE pc[w]]
    /\ wokenBy' = [w \in Threads |->
                     IF w \in Waiters THEN "notify" ELSE wokenBy[w]]
    /\ UNCHANGED <<holder, poisoned, data, inwait, alive, last>>
    /\ UNCHANGED notSync

\* std::sync::Condvar::wait is susceptible to spurious wakeups: a suspended
\* waiter may resume without any notification.
spurious_wakeup(w) ==
    /\ pc[w] = "waiting"
    /\ pc' = [pc EXCEPT ![w] = "woken"]
    /\ wokenBy' = [wokenBy EXCEPT ![w] = "spurious"]
    /\ UNCHANGED <<holder, poisoned, data, inwait, alive, last>>
    /\ UNCHANGED notSync

\* Condvar::wait, return: the woken thread retakes the lock; Ok(guard) is
\* returned, Err(PoisonError(guard)) panics.
wait_return(t) ==
    /\ pc[t] = "woken"
    /\ inwait[t] = "wait"
    /\ holder = Free
    /\ holder' = t
    /\ inwait' = [inwait EXCEPT ![t] = "none"]
    /\ IF poisoned
       THEN /\ pc' = [pc EXCEPT ![t] = "panicking"]
            /\ last' = Returned("wait", "Panic", FALSE, wokenBy[t])
       ELSE /\ pc' = [pc EXCEPT ![t] = "held"]
            /\ last' = Returned("wait", "Guard", FALSE, wokenBy[t])
    /\ wokenBy' = [wokenBy EXCEPT ![t] = "none"]
    /\ UNCHANGED <<poisoned, data, alive>>
    /\ UNCHANGED notSync

\* wait_while() that returns after the first wake-up, like wait(), without
\* evaluating the condition again.
wait_while_return_no_recheck(t) ==
    /\ pc[t] = "woken"
    /\ inwait[t] \in Conds
    /\ holder = Free
    /\ holder' = t
    /\ inwait' = [inwait EXCEPT ![t] = "none"]
    /\ IF poisoned
       THEN /\ pc' = [pc EXCEPT ![t] = "panicking"]
            /\ last' = Returned("wait_while", "Panic", Cond(inwait[t], data), wokenBy[t])
       ELSE /\ pc' = [pc EXCEPT ![t] = "held"]
            /\ last' = Returned("wait_while", "Guard", Cond(inwait[t], data), wokenBy[t])
    /\ wokenBy' = [wokenBy EXCEPT ![t] = "none"]
    /\ UNCHANGED <<poisoned, data, alive>>
    /\ UNCHANGED notSync

\* Condvar::wait_while, after a wake-up: the inner wait retakes the lock; a
\* poisoned lock ends the loop with Err (panic); otherwise the condition is
\* evaluated again and the thread suspends again while it is true.
wait_while_return(t) ==
    /\ pc[t] = "woken"
    /\ inwait[t] \in Conds
    /\ holder = Free
    /\ IF poisoned
       THEN /\ holder' = t
            /\ pc' = [pc EXCEPT ![t] = "panicking"]
            /\ inwait' = [inwait EXCEPT ![t] = "none"]
            /\ last' = Returned("wait_while", "Panic", Cond(inwait[t], data), wokenBy[t])
            /\ wokenBy' = [wokenBy EXCEPT ![t] = "none"]
       ELSE IF Cond(inwait[t], data)
       THEN /\ holder' = Free
            /\ pc' = [pc EXCEPT ![t] = "waiting"]
            /\ wokenBy' = [wokenBy EXCEPT ![t] = "none"]
            /\ UNCHANGED <<inwait, last>>
       ELSE /\ holder' = t
            /\ pc' = [pc EXCEPT ![t] = "held"]
            /\ inwait' = [inwait EXCEPT ![t] = "none"]
            /\ last' = Returned("wait_while", "Guard", Cond(inwait[t], data), wokenBy[t])
            /\ wokenBy' = [wokenBy EXCEPT ![t] = "none"]
    /\ UNCHANGED <<poisoned, data, alive>>
    /\ UNCHANGED notSync

(***************************************************************************)
(* nodrop.rs: NoDropMarker.                                                *)
(*   marker[m]: "none" (not created), "live", "forgotten", "dropped"       *)
(***************************************************************************)
InitNoDrop ==
    /\ marker = [m \in Markers |-> "none"]
    /\ embedded = [m \in Markers |-> FALSE]
    /\ consumes = [m \in Markers |-> 0]
    /\ mpanics = [m \in Markers |-> 0]

\* #[derive(Default)] NoDropMarker: a marker of its own.
marker_default(m) ==
    /\ marker[m] = "none"
    /\ marker' = [marker EXCEPT ![m] = "live"]
    /\ UNCHANGED <<embedded, consumes, mpanics>>
    /\ UNCHANGED notNoDrop

\* Test::default(): a marker that is a field of a containing struct.
test_default(m) ==
    /\ marker[m] = "none"
    /\ marker' = [marker EXCEPT ![m] = "live"]
    /\ embedded' = [embedded EXCEPT ![m] = TRUE]
    /\ UNCHANGED <<consumes, mpanics>>
    /\ UNCHANGED notNoDrop

\* consume() without the forget: self is dropped when the call ends.
consume_no_forget(m) ==
    /\ marker[m] = "live"
    /\ marker' = [marker EXCEPT ![m] = "dropped"]
    /\ consumes' = [consumes EXCEPT ![m] = @ + 1]
    /\ mpanics' = [mpanics EXCEPT ![m] = @ + 1]
    /\ UNCHANGED embedded
    /\ UNCHANGED notNoDrop

\* NoDropMarker::consume(self): std::mem::forget(self), so that Drop never
\* runs for it. The marker is moved into the call: it has to be live.
consume(m) ==
    /\ marker[m] = "live"
    /\ marker' = [marker EXCEPT ![m] = "forgotten"]
    /\ consumes' = [consumes EXCEPT ![m] = @ + 1]
    /\ UNCHANGED <<embedded, mpanics>>
    /\ UNCHANGED notNoDrop

\* Drop for NoDropMarker: panic!().
drop(m) ==
    /\ marker[m] = "live"
    /\ marker' = [marker EXCEPT ![m] = "dropped"]
    /\ mpanics' = [mpanics EXCEPT ![m] = @ + 1]
    /\ UNCHANGED <<embedded, consumes>>
    /\ UNCHANGED notNoDrop

\* A marker of its own is consumed by its owner.
marker_consume(m) == ~embedded[m] /\ consume(m)

\* A marker of its own goes out of scope.
marker_drop(m) == ~embedded[m] /\ drop(m)

\* Test::consume(self): let Self { marker, .. } = self; marker.consume();
test_consume(m) == embedded[m] /\ consume(m)

\* drop(data) of the containing struct: the drop glue drops its fields.
test_drop(m) == embedded[m] /\ drop(m)

NextNoDrop ==
    \E m \in Markers :
        \/ marker_default(m)
        \/ test_default(m)
        \/ marker_consume(m)
        \/ marker_drop(m)
        \/ test_consume(m)
        \/ test_drop(m)

(***************************************************************************)
(* config.rs: block_backend.                                               *)
(*                                                                         *)
(* Option<T> is a sequence of length at most one: None is << >>, Some(x)   *)
(* is <<x>>. A toml::Value is a tagged value. A map is a function from the *)
(* keys of interest to Option<value>, so that get(k) is the map at k.      *)
(***************************************************************************)
DEFAULT_WORKER_COUNT == 8
MAX_FILE_WORKERS == 32

\* How far above MAX_FILE_WORKERS the configured worker counts go.
OverMax == 2

None == << >>
Some(x) == <<x>>
IsSome(o) == Len(o) = 1
Unwrap(o) == o[1]

Integer(n) == [ty |-> "integer", v |-> n]
String(x) == [ty |-> "string", v |-> x]
IsInt(val) == val.ty = "integer"
IsStr(val) == val.ty = "string"

Names == {"diskA", "diskX"}
BdTypes == {"file", "mem-async", "cloudinit", "", "nvme"}
FilePath == "/dev/dsk/c0"

\* The values `workers` is configured with: nothing, a string, an integer.
WorkerValues ==
    {None, Some(String("many"))}
        \cup {Some(Integer(w)) : w \in (0 - 1)..(MAX_FILE_WORKERS + OverMax)}

\* BlockDevice.options: the flattened free-form options.
OptionMaps ==
    [path : {None, Some(String(FilePath))},
     workers : WorkerValues,
     size : {None, Some(Integer(1024))},
     bogus : {None, Some(Integer(1))}]

\* BlockOpts
BlockOptsValues ==
    {[block_size |-> None, read_only |-> None, skip_flush |-> None],
     [block_size |-> Some(512), read_only |-> Some(TRUE), skip_flush |-> None]}

BlockDevices ==
    [bdtype : BdTypes, block_opts : BlockOptsValues, options : OptionMaps]

NoParsed == [ok |-> FALSE, path |-> "", size |-> 0, workers |-> None]
NoResult == [kind |-> "none", msg |-> "", name |-> "", backend |-> "none",
             workers |-> 0, opts |-> None]

InitBackend ==
    /\ dev_options \in
           [block_dev : {None, Some(Integer(0))} \cup {Some(String(n)) : n \in Names}]
    /\ block_devs \in
           [diskA : {None} \cup {Some(b) : b \in BlockDevices}, diskX : {None}]
    /\ bb_pc = "start"
    /\ bb_parsed = NoParsed
    /\ bb_workers = None
    /\ bb_log = << >>
    /\ bb_result = NoResult

\* let backend_name = dev.options.get("block_dev").unwrap().as_str().unwrap();
backend_name == Unwrap(dev_options.block_dev).v

\* config.block_devs.get(backend_name)
be == Unwrap(block_devs[backend_name])

Event(ev, arg) == [ev |-> ev, arg |-> arg]

Panic(msg, name) == [NoResult EXCEPT !.kind = "panic", !.msg = msg, !.name = name]

\* FileConfig as it would decode under #[serde(deny_unknown_fields)].
FileConfig_deny_unknown_fields(o) ==
    LET pathOk == IsSome(o.path) /\ IsStr(Unwrap(o.path))
        workersOk == \/ ~IsSome(o.workers)
                     \/ /\ IsInt(Unwrap(o.workers))
                        /\ Unwrap(o.workers).v >= 1
        known == ~IsSome(o.size) /\ ~IsSome(o.bogus)
    IN  IF pathOk /\ workersOk /\ known
        THEN [ok |-> TRUE, path |-> Unwrap(o.path).v, size |-> 0,
              workers |-> IF IsSome(o.workers)
                          THEN Some(Unwrap(o.workers).v) ELSE None]
        ELSE NoParsed

\* #[derive(Deserialize)] struct FileConfig { path: String,
\* workers: Option<NonZeroUsize> }, decoded by opt_deser. No
\* deny_unknown_fields: keys that are no field are skipped.
FileConfig(o) ==
    LET pathOk == IsSome(o.path) /\ IsStr(Unwrap(o.path))
        workersOk == \/ ~IsSome(o.workers)
                     \/ /\ IsInt(Unwrap(o.workers))
                        /\ Unwrap(o.workers).v >= 1
    IN  IF pathOk /\ workersOk
        THEN [ok |-> TRUE, path |-> Unwrap(o.path).v, size |-> 0,
              workers |-> IF IsSome(o.workers)
                          THEN Some(Unwrap(o.workers).v) ELSE None]
        ELSE NoParsed

\* #[derive(Deserialize)] struct MemAsyncConfig { size: u64,
\* workers: Option<usize> }, decoded by opt_deser.
MemAsyncConfig(o) ==
    LET sizeOk == /\ IsSome(o.size)
                  /\ IsInt(Unwrap(o.size))
                  /\ Unwrap(o.size).v >= 0
        workersOk == \/ ~IsSome(o.workers)
                     \/ /\ IsInt(Unwrap(o.workers))
                        /\ Unwrap(o.workers).v >= 0
    IN  IF sizeOk /\ workersOk
        THEN [ok |-> TRUE, path |-> "", size |-> Unwrap(o.size).v,
              workers |-> IF IsSome(o.workers)
                          THEN Some(Unwrap(o.workers).v) ELSE None]
        ELSE NoParsed

\* opt_deser::<T>(value): map.try_into::<T>()
opt_deser(T, o) == IF T = "FileConfig" THEN FileConfig(o) ELSE MemAsyncConfig(o)

\* block::BackendOpts { block_size, read_only, skip_flush } from be.block_opts
BackendOpts == Some(be.block_opts)

\* The lookup with a panic message that leaves the name out.
bb_lookup_no_name ==
    /\ bb_pc = "start"
    /\ IF ~IsSome(dev_options.block_dev)
       THEN /\ bb_result' = Panic("called Option::unwrap() on a None value", "")
            /\ bb_pc' = "done"
       ELSE IF ~IsStr(Unwrap(dev_options.block_dev))
       THEN /\ bb_result' = Panic("called Option::unwrap() on a None value", "")
            /\ bb_pc' = "done"
       ELSE IF ~IsSome(block_devs[backend_name])
       THEN /\ bb_result' = Panic("No configured block device named", "")
            /\ bb_pc' = "done"
       ELSE /\ bb_result' = bb_result
            /\ bb_pc' = "match"
    /\ UNCHANGED <<dev_options, block_devs, bb_parsed, bb_workers, bb_log>>
    /\ UNCHANGED notBackend

\* Lines 170-173: the name comes out of the device's options (unwrap on a
\* missing option, unwrap on a value that is no string), then the lookup in
\* config.block_devs, which panics with the name when it finds nothing.
bb_lookup ==
    /\ bb_pc = "start"
    /\ IF ~IsSome(dev_options.block_dev)
       THEN /\ bb_result' = Panic("called Option::unwrap() on a None value", "")
            /\ bb_pc' = "done"
       ELSE IF ~IsStr(Unwrap(dev_options.block_dev))
       THEN /\ bb_result' = Panic("called Option::unwrap() on a None value", "")
            /\ bb_pc' = "done"
       ELSE IF ~IsSome(block_devs[backend_name])
       THEN /\ bb_result' = Panic("No configured block device named", backend_name)
            /\ bb_pc' = "done"
       ELSE /\ bb_result' = bb_result
            /\ bb_pc' = "match"
    /\ UNCHANGED <<dev_options, block_devs, bb_parsed, bb_workers, bb_log>>
    /\ UNCHANGED notBackend

\* "file" arm, line 182: let parsed: FileConfig = opt_deser(&be.options).unwrap();
bb_file_decode ==
    /\ bb_pc = "match"
    /\ be.bdtype = "file"
    /\ bb_log' = Append(bb_log, Event("decode", "FileConfig"))
    /\ bb_parsed' = opt_deser("FileConfig", be.options)
    /\ IF bb_parsed'.ok
       THEN bb_pc' = "file_metadata" /\ bb_result' = bb_result
       ELSE /\ bb_pc' = "done"
            /\ bb_result' = Panic("called Result::unwrap() on an Err value: decode",
                                  backend_name)
    /\ UNCHANGED <<dev_options, block_devs, bb_workers>>
    /\ UNCHANGED notBackend

\* What std::fs::metadata finds at the path.
FileTypes == {"regular", "block_device", "char_device"}

\* The stat with the warning for a regular file in place of a block device.
bb_file_metadata_warn_regular ==
    /\ bb_pc = "file_metadata"
    /\ \E ft \in FileTypes \cup {"error"} :
          IF ft = "error"
          THEN /\ bb_log' = Append(bb_log, Event("metadata", ft))
               /\ bb_pc' = "done"
               /\ bb_result' = Panic("file device path is valid", backend_name)
          ELSE /\ bb_log' =
                     IF ft = "regular"
                     THEN bb_log \o <<Event("metadata", ft),
                                      Event("warn", "standard device rather than raw")>>
                     ELSE Append(bb_log, Event("metadata", ft))
               /\ bb_pc' = "file_workers"
               /\ bb_result' = bb_result
    /\ UNCHANGED <<dev_options, block_devs, bb_parsed, bb_workers>>
    /\ UNCHANGED notBackend

\* "file" arm, lines 185-197: metadata of the path (a failure panics), and the
\* warning when meta.file_type().is_block_device().
bb_file_metadata ==
    /\ bb_pc = "file_metadata"
    /\ \E ft \in FileTypes \cup {"error"} :
          IF ft = "error"
          THEN /\ bb_log' = Append(bb_log, Event("metadata", ft))
               /\ bb_pc' = "done"
               /\ bb_result' = Panic("file device path is valid", backend_name)
          ELSE /\ bb_log' =
                     IF ft = "block_device"
                     THEN bb_log \o <<Event("metadata", ft),
                                      Event("warn", "standard device rather than raw")>>
                     ELSE Append(bb_log, Event("metadata", ft))
               /\ bb_pc' = "file_workers"
               /\ bb_result' = bb_result
    /\ UNCHANGED <<dev_options, block_devs, bb_parsed, bb_workers>>
    /\ UNCHANGED notBackend

\* The worker count with `<` for `<=`.
bb_file_workers_off_by_one ==
    /\ bb_pc = "file_workers"
    /\ IF IsSome(bb_parsed.workers)
       THEN IF Unwrap(bb_parsed.workers) < MAX_FILE_WORKERS
            THEN /\ bb_workers' = Some(Unwrap(bb_parsed.workers))
                 /\ bb_log' = bb_log
            ELSE /\ bb_workers' = Some(DEFAULT_WORKER_COUNT)
                 /\ bb_log' = Append(bb_log, Event("warn", "workers"))
       ELSE /\ bb_workers' = Some(DEFAULT_WORKER_COUNT)
            /\ bb_log' = bb_log
    /\ bb_pc' = "file_create"
    /\ UNCHANGED <<dev_options, block_devs, bb_parsed, bb_result>>
    /\ UNCHANGED notBackend

\* The worker count without the upper limit.
bb_file_workers_no_clamp ==
    /\ bb_pc = "file_workers"
    /\ bb_workers' = IF IsSome(bb_parsed.workers)
                     THEN Some(Unwrap(bb_parsed.workers))
                     ELSE Some(DEFAULT_WORKER_COUNT)
    /\ bb_log' = bb_log
    /\ bb_pc' = "file_create"
    /\ UNCHANGED <<dev_options, block_devs, bb_parsed, bb_result>>
    /\ UNCHANGED notBackend

\* The worker count with the fallback and no warning.
bb_file_workers_silent ==
    /\ bb_pc = "file_workers"
    /\ bb_workers' = IF /\ IsSome(bb_parsed.workers)
                        /\ Unwrap(bb_parsed.workers) <= MAX_FILE_WORKERS
                     THEN Some(Unwrap(bb_parsed.workers))
                     ELSE Some(DEFAULT_WORKER_COUNT)
    /\ bb_log' = bb_log
    /\ bb_pc' = "file_create"
    /\ UNCHANGED <<dev_options, block_devs, bb_parsed, bb_result>>
    /\ UNCHANGED notBackend

\* "file" arm, lines 199-215: the worker count.
bb_file_workers ==
    /\ bb_pc = "file_workers"
    /\ IF IsSome(bb_parsed.workers)
       THEN IF Unwrap(bb_parsed.workers) <= MAX_FILE_WORKERS
            THEN /\ bb_workers' = Some(Unwrap(bb_parsed.workers))
                 /\ bb_log' = bb_log
            ELSE /\ bb_workers' = Some(DEFAULT_WORKER_COUNT)
                 /\ bb_log' = Append(bb_log, Event("warn", "workers"))
       ELSE /\ bb_workers' = Some(DEFAULT_WORKER_COUNT)
            /\ bb_log' = bb_log
    /\ bb_pc' = "file_create"
    /\ UNCHANGED <<dev_options, block_devs, bb_parsed, bb_result>>
    /\ UNCHANGED notBackend

Handle(kind, workers, opts) ==
    [NoResult EXCEPT !.kind = "ok", !.name = backend_name, !.backend = kind,
                     !.workers = workers, !.opts = opts]

\* "file" arm, line 216, and line 236:
\* block::FileBackend::create(&parsed.path, opts, workers).unwrap()
bb_file_create ==
    /\ bb_pc = "file_create"
    /\ \E ok \in BOOLEAN :
          /\ bb_log' = Append(bb_log, Event("create", "file"))
          /\ bb_result' =
                IF ok THEN Handle("file", Unwrap(bb_workers), BackendOpts)
                ELSE Panic("called Result::unwrap() on an Err value: create",
                           backend_name)
    /\ bb_pc' = "done"
    /\ UNCHANGED <<dev_options, block_devs, bb_parsed, bb_workers>>
    /\ UNCHANGED notBackend

\* "mem-async" arm, line 219.
bb_mem_async_decode ==
    /\ bb_pc = "match"
    /\ be.bdtype = "mem-async"
    /\ bb_log' = Append(bb_log, Event("decode", "MemAsyncConfig"))
    /\ bb_parsed' = opt_deser("MemAsyncConfig", be.options)
    /\ IF bb_parsed'.ok
       THEN bb_pc' = "mem_async_create" /\ bb_result' = bb_result
       ELSE /\ bb_pc' = "done"
            /\ bb_result' = Panic("called Result::unwrap() on an Err value: decode",
                                  backend_name)
    /\ UNCHANGED <<dev_options, block_devs, bb_workers>>
    /\ UNCHANGED notBackend

\* The "mem-async" arm with the upper limit and the warning of the "file" arm.
bb_mem_async_create_clamped ==
    /\ bb_pc = "mem_async_create"
    /\ LET given == IF IsSome(bb_parsed.workers)
                    THEN Unwrap(bb_parsed.workers) ELSE DEFAULT_WORKER_COUNT
           w == IF given <= MAX_FILE_WORKERS THEN given ELSE DEFAULT_WORKER_COUNT
           warned == IF given <= MAX_FILE_WORKERS THEN bb_log
                     ELSE Append(bb_log, Event("warn", "workers"))
       IN  IF w = 0
           THEN /\ bb_workers' = None
                /\ bb_log' = bb_log
                /\ bb_result' = Panic("called Option::unwrap() on a None value",
                                      backend_name)
           ELSE /\ bb_workers' = Some(w)
                /\ \E ok \in BOOLEAN :
                      /\ bb_log' = Append(warned, Event("create", "mem-async"))
                      /\ bb_result' =
                            IF ok THEN Handle("mem-async", w, BackendOpts)
                            ELSE Panic("called Result::unwrap() on an Err value: create",
                                       backend_name)
    /\ bb_pc' = "done"
    /\ UNCHANGED <<dev_options, block_devs, bb_parsed>>
    /\ UNCHANGED notBackend

\* "mem-async" arm, lines 221-229, and line 236:
\* NonZeroUsize::new(parsed.workers.unwrap_or(DEFAULT_WORKER_COUNT)).unwrap(),
\* then block::MemAsyncBackend::create(size, opts, workers).unwrap()
bb_mem_async_create ==
    /\ bb_pc = "mem_async_create"
    /\ LET w == IF IsSome(bb_parsed.workers)
                THEN Unwrap(bb_parsed.workers) ELSE DEFAULT_WORKER_COUNT
       IN  IF w = 0
           THEN /\ bb_workers' = None
                /\ bb_log' = bb_log
                /\ bb_result' = Panic("called Option::unwrap() on a None value",
                                      backend_name)
           ELSE /\ bb_workers' = Some(w)
                /\ \E ok \in BOOLEAN :
                      /\ bb_log' = Append(bb_log, Event("create", "mem-async"))
                      /\ bb_result' =
                            IF ok THEN Handle("mem-async", w, BackendOpts)
                            ELSE Panic("called Result::unwrap() on an Err value: create",
                                       backend_name)
    /\ bb_pc' = "done"
    /\ UNCHANGED <<dev_options, block_devs, bb_parsed>>
    /\ UNCHANGED notBackend

\* "cloudinit" arm, line 231, and line 236: build_cidata_be(config).unwrap()
bb_cloudinit ==
    /\ bb_pc = "match"
    /\ be.bdtype = "cloudinit"
    /\ \E ok \in BOOLEAN :
          /\ bb_log' = Append(bb_log, Event("create", "cloudinit"))
          /\ bb_result' =
                IF ok THEN Handle("cloudinit", 0, None)
                ELSE Panic("called Result::unwrap() on an Err value: create",
                           backend_name)
    /\ bb_pc' = "done"
    /\ UNCHANGED <<dev_options, block_devs, bb_parsed, bb_workers>>
    /\ UNCHANGED notBackend

\* The `_` arm falling back to an in-memory backend with the default worker
\* count in place of the panic.
bb_unrecognized_fallback ==
    /\ bb_pc = "match"
    /\ be.bdtype \notin {"file", "mem-async", "cloudinit"}
    /\ bb_result' = Handle("mem-async", DEFAULT_WORKER_COUNT, BackendOpts)
    /\ bb_pc' = "done"
    /\ UNCHANGED <<dev_options, block_devs, bb_parsed, bb_workers, bb_log>>
    /\ UNCHANGED notBackend

\* The `_` arm, lines 232-234.
bb_unrecognized ==
    /\ bb_pc = "match"
    /\ be.bdtype \notin {"file", "mem-async", "cloudinit"}
    /\ bb_result' = Panic("unrecognized block dev type", be.bdtype)
    /\ bb_pc' = "done"
    /\ UNCHANGED <<dev_options, block_devs, bb_parsed, bb_workers, bb_log>>
    /\ UNCHANGED notBackend

\* block_backend(config, dev, log), statement by statement.
block_backend ==
    \/ bb_lookup
    \/ bb_file_decode
    \/ bb_file_metadata
    \/ bb_file_workers
    \/ bb_file_create
    \/ bb_mem_async_decode
    \/ bb_mem_async_create
    \/ bb_cloudinit
    \/ bb_unrecognized

(***************************************************************************)
(* config.rs: parse_cpuid.                                                 *)
(***************************************************************************)
\* The longest entry list of a profile.
MaxEntries == 3

Leafs == {1, 4}
Subleafs == {None, Some(0)}
Registers == {<<0, 0, 0, 0>>, <<1, 2, 3, 4>>}
ProfileNames == {"p", "q"}

\* CpuidEntry { func, idx, values }
CpuidEntries == [func : Leafs, idx : Subleafs, values : Registers]

EntryLists == UNION {[1..n -> CpuidEntries] : n \in 0..MaxEntries}

\* CpuidProfile: a vendor and the entries, in declared order.
CpuidProfiles == [vendor : {"amd", "intel"}, entries : EntryLists]

NoSet == [vendor |-> "", map |-> {}]
NoCpuid == [kind |-> "none", set |-> NoSet, func |-> 0, idx |-> None]

InitCpuid ==
    /\ main_cpuid_profile \in {None} \cup {Some(n) : n \in ProfileNames}
    /\ cpuid_profiles \in [p : {Some(c) : c \in CpuidProfiles}, q : {None}]
    /\ cp_pc = "start"
    /\ cp_entries = << >>
    /\ cp_next = 0
    /\ cp_set = NoSet
    /\ cp_result = NoCpuid

\* Config::cpuid_profile(): the profile main.cpuid_profile names, if it names
\* one and the table holds it.
cpuid_profile ==
    IF IsSome(main_cpuid_profile)
    THEN cpuid_profiles[Unwrap(main_cpuid_profile)]
    ELSE None

\* match profile.vendor { CpuVendor::Amd => CpuidVendor::Amd, ... }
CpuidVendor(v) == IF v = "amd" THEN "CpuidVendor::Amd" ELSE "CpuidVendor::Intel"

\* CpuidSet::new(vendor)
CpuidSet_new(vendor) == [vendor |-> vendor, map |-> {}]

\* let entries: Vec<CpuidEntry> = profile.try_into()?
try_into(profile) == profile.entries

\* CpuidIdent { leaf: entry.func, subleaf: entry.idx }
CpuidIdent(entry) == [leaf |-> entry.func, subleaf |-> entry.idx]

\* CpuidValues::from(entry.values)
CpuidValues(values) ==
    [eax |-> values[1], ebx |-> values[2], ecx |-> values[3], edx |-> values[4]]

\* The value the set holds at ident, as an Option.
Lookup(set, ident) ==
    IF \E kv \in set.map : kv.ident = ident
    THEN Some((CHOOSE kv \in set.map : kv.ident = ident).values)
    ELSE None

\* CpuidSet::insert(ident, values): the set with values at ident; the caller
\* gets the value that was at ident before (Lookup), if there was one.
insert(set, ident, values) ==
    [set EXCEPT !.map = {kv \in @ : kv.ident # ident}
                            \cup {[ident |-> ident, values |-> values]}]

\* The beginning with the two arms of the vendor match exchanged.
parse_cpuid_begin_vendor_swapped ==
    /\ cp_pc = "start"
    /\ IF IsSome(cpuid_profile)
       THEN /\ cp_set' = CpuidSet_new(IF Unwrap(cpuid_profile).vendor = "amd"
                                      THEN CpuidVendor("intel")
                                      ELSE CpuidVendor("amd"))
            /\ cp_entries' = try_into(Unwrap(cpuid_profile))
            /\ cp_next' = 1
            /\ cp_pc' = "loop"
            /\ cp_result' = cp_result
       ELSE /\ cp_result' = [NoCpuid EXCEPT !.kind = "Ok(None)"]
            /\ cp_pc' = "done"
            /\ UNCHANGED <<cp_set, cp_entries, cp_next>>
    /\ UNCHANGED <<main_cpuid_profile, cpuid_profiles>>
    /\ UNCHANGED notCpuid

\* Lines 266-272 and 288-290: no profile, or a fresh set and the entries.
parse_cpuid_begin ==
    /\ cp_pc = "start"
    /\ IF IsSome(cpuid_profile)
       THEN /\ cp_set' = CpuidSet_new(CpuidVendor(Unwrap(cpuid_profile).vendor))
            /\ cp_entries' = try_into(Unwrap(cpuid_profile))
            /\ cp_next' = 1
            /\ cp_pc' = "loop"
            /\ cp_result' = cp_result
       ELSE /\ cp_result' = [NoCpuid EXCEPT !.kind = "Ok(None)"]
            /\ cp_pc' = "done"
            /\ UNCHANGED <<cp_set, cp_entries, cp_next>>
    /\ UNCHANGED <<main_cpuid_profile, cpuid_profiles>>
    /\ UNCHANGED notCpuid

\* The loop without the conflict check: a later entry overwrites.
parse_cpuid_entry_overwrite ==
    /\ cp_pc = "loop"
    /\ cp_next <= Len(cp_entries)
    /\ LET entry == cp_entries[cp_next]
       IN  cp_set' = insert(cp_set, CpuidIdent(entry), CpuidValues(entry.values))
    /\ cp_next' = cp_next + 1
    /\ UNCHANGED <<cp_pc, cp_result>>
    /\ UNCHANGED <<main_cpuid_profile, cpuid_profiles, cp_entries>>
    /\ UNCHANGED notCpuid

\* Lines 273-286: one turn of the loop.
parse_cpuid_entry ==
    /\ cp_pc = "loop"
    /\ cp_next <= Len(cp_entries)
    /\ LET entry == cp_entries[cp_next]
           conflict == Lookup(cp_set, CpuidIdent(entry))
       IN  /\ cp_set' = insert(cp_set, CpuidIdent(entry), CpuidValues(entry.values))
           /\ IF IsSome(conflict)
              THEN /\ cp_result' = [NoCpuid EXCEPT !.kind = "Err",
                                                   !.func = entry.func,
                                                   !.idx = entry.idx]
                   /\ cp_pc' = "done"
                   /\ cp_next' = cp_next
              ELSE /\ cp_next' = cp_next + 1
                   /\ UNCHANGED <<cp_pc, cp_result>>
    /\ UNCHANGED <<main_cpuid_profile, cpuid_profiles, cp_entries>>
    /\ UNCHANGED notCpuid

\* Line 287: Ok(Some(set))
parse_cpuid_return ==
    /\ cp_pc = "loop"
    /\ cp_next > Len(cp_entries)
    /\ cp_result' = [NoCpuid EXCEPT !.kind = "Ok(Some)", !.set = cp_set]
    /\ cp_pc' = "done"
    /\ UNCHANGED <<main_cpuid_profile, cpuid_profiles, cp_entries, cp_next, cp_set>>
    /\ UNCHANGED notCpuid

\* parse_cpuid(config), statement by statement.
parse_cpuid ==
    \/ parse_cpuid_begin
    \/ parse_cpuid_entry
    \/ parse_cpuid_return

(***************************************************************************)
(* config.rs: the Config structures and their serde derives.               *)
(*                                                                         *)
(* A document is the toml::Value tree of a configuration text: a table is  *)
(* a function from the keys of interest to Option<toml::Value>, absent     *)
(* keys being None. A BTreeMap<String, T> is a function from the names of  *)
(* interest to Option<T>. Deserializing yields Some(value) or, on an       *)
(* error, None.                                                            *)
(***************************************************************************)
Boolean(b) == [ty |-> "boolean", v |-> b]
Array(a) == [ty |-> "array", v |-> a]
Table(t) == [ty |-> "table", v |-> t]

\* The key is present with a value of the type.
HasType(t, k, ty) == IsSome(t[k]) /\ Unwrap(t[k]).ty = ty

\* A field of type Option<T>: absent, or present with a value of the type.
OptionOf(t, k, ty) == ~IsSome(t[k]) \/ HasType(t, k, ty)

\* u8: an integer in 0..=255
IsU8(val) == val.ty = "integer" /\ val.v \in 0..255

\* The Rust value of an optional key, and the toml value of an Option.
Strip(o) == IF IsSome(o) THEN Some(Unwrap(o).v) ELSE None
Wrap(o, ty) == IF IsSome(o) THEN Some([ty |-> ty, v |-> Unwrap(o)]) ELSE None

MainKeys == {"name", "cpus", "bootrom", "bootrom_version", "memory",
             "use_reservoir", "cpuid_profile", "exit_on_halt",
             "exit_on_reboot", "boot_order", "comment"}

\* #[derive(Deserialize)] struct Main: name, cpus, bootrom and memory are
\* required; exit_on_halt is #[serde(default)] (0); the Option fields are
\* None when absent; a key that is no field is skipped.
Main_deserialize(t) ==
    IF /\ HasType(t, "name", "string")
       /\ IsSome(t["cpus"]) /\ IsU8(Unwrap(t["cpus"]))
       /\ HasType(t, "bootrom", "string")
       /\ OptionOf(t, "bootrom_version", "string")
       /\ HasType(t, "memory", "integer") /\ Unwrap(t["memory"]).v >= 0
       /\ OptionOf(t, "use_reservoir", "boolean")
       /\ OptionOf(t, "cpuid_profile", "string")
       /\ ~IsSome(t["exit_on_halt"]) \/ IsU8(Unwrap(t["exit_on_halt"]))
       /\ ~IsSome(t["exit_on_reboot"]) \/ IsU8(Unwrap(t["exit_on_reboot"]))
       /\ OptionOf(t, "boot_order", "array")
    THEN Some([name |-> Unwrap(t["name"]).v,
               cpus |-> Unwrap(t["cpus"]).v,
               bootrom |-> Unwrap(t["bootrom"]).v,
               bootrom_version |-> Strip(t["bootrom_version"]),
               memory |-> Unwrap(t["memory"]).v,
               use_reservoir |-> Strip(t["use_reservoir"]),
               cpuid_profile |-> Strip(t["cpuid_profile"]),
               exit_on_halt |-> IF IsSome(t["exit_on_halt"])
                                THEN Unwrap(t["exit_on_halt"]).v ELSE 0,
               exit_on_reboot |-> Strip(t["exit_on_reboot"]),
               boot_order |-> Strip(t["boot_order"])])
    ELSE None

\* #[derive(Serialize)] struct Main: every field under its name; the toml
\* serializer leaves out a field that is None.
Main_serialize(m) ==
    [k \in MainKeys |->
        CASE k = "name" -> Some(String(m.name))
          [] k = "cpus" -> Some(Integer(m.cpus))
          [] k = "bootrom" -> Some(String(m.bootrom))
          [] k = "bootrom_version" -> Wrap(m.bootrom_version, "string")
          [] k = "memory" -> Some(Integer(m.memory))
          [] k = "use_reservoir" -> Wrap(m.use_reservoir, "boolean")
          [] k = "cpuid_profile" -> Wrap(m.cpuid_profile, "string")
          [] k = "exit_on_halt" -> Some(Integer(m.exit_on_halt))
          [] k = "exit_on_reboot" -> Wrap(m.exit_on_reboot, "integer")
          [] k = "boot_order" -> Wrap(m.boot_order, "array")
          [] OTHER -> None]

DeviceKeys == {"driver", "block_dev", "pci-path"}
DeviceOptionKeys == DeviceKeys \ {"driver"}

\* #[derive(Deserialize)] struct Device: driver is required; options is
\* #[serde(flatten)]: every other key of the table, with its value.
Device_deserialize(t) ==
    IF HasType(t, "driver", "string")
    THEN Some([driver |-> Unwrap(t["driver"]).v,
               options |-> [k \in DeviceOptionKeys |-> t[k]]])
    ELSE None

\* #[derive(Serialize)] struct Device: driver, then the entries of options
\* in the same table.
Device_serialize(d) ==
    [k \in DeviceKeys |->
        IF k = "driver" THEN Some(String(d.driver)) ELSE d.options[k]]

BlockOptsKeys == {"block_size", "read_only", "skip_flush"}
BlockDeviceKeys == {"type", "bdtype"} \cup BlockOptsKeys \cup {"path", "workers"}
BlockDeviceOptionKeys == BlockDeviceKeys \ ({"type"} \cup BlockOptsKeys)

\* #[derive(Deserialize)] struct BlockOpts: three Option fields (block_size
\* a u32).
BlockOpts_deserialize(t) ==
    IF /\ OptionOf(t, "block_size", "integer")
       /\ IsSome(t["block_size"]) => Unwrap(t["block_size"]).v >= 0
       /\ OptionOf(t, "read_only", "boolean")
       /\ OptionOf(t, "skip_flush", "boolean")
    THEN Some([block_size |-> Strip(t["block_size"]),
               read_only |-> Strip(t["read_only"]),
               skip_flush |-> Strip(t["skip_flush"])])
    ELSE None

\* #[derive(Deserialize)] struct BlockDevice: bdtype is the key "type"
\* (rename) and "" when absent (default); block_opts is flattened and takes
\* its three keys out of the table; options is flattened after it and gets
\* every key that is left.
BlockDevice_deserialize(t) ==
    IF OptionOf(t, "type", "string") /\ IsSome(BlockOpts_deserialize(t))
    THEN Some([bdtype |-> IF IsSome(t["type"]) THEN Unwrap(t["type"]).v ELSE "",
               block_opts |-> Unwrap(BlockOpts_deserialize(t)),
               options |-> [k \in BlockDeviceOptionKeys |-> t[k]]])
    ELSE None

\* BlockDevice serialized with bdtype under the name of the field.
BlockDevice_serialize_no_rename(b) ==
    [k \in BlockDeviceKeys |->
        CASE k = "bdtype" -> Some(String(b.bdtype))
          [] k = "type" -> None
          [] k = "block_size" -> Wrap(b.block_opts.block_size, "integer")
          [] k = "read_only" -> Wrap(b.block_opts.read_only, "boolean")
          [] k = "skip_flush" -> Wrap(b.block_opts.skip_flush, "boolean")
          [] OTHER -> b.options[k]]

\* #[derive(Serialize)] struct BlockDevice: bdtype under "type", the fields
\* of block_opts that are not None, and the entries of options, all in the
\* one table.
BlockDevice_serialize(b) ==
    [k \in BlockDeviceKeys |->
        CASE k = "type" -> Some(String(b.bdtype))
          [] k = "block_size" -> Wrap(b.block_opts.block_size, "integer")
          [] k = "read_only" -> Wrap(b.block_opts.read_only, "boolean")
          [] k = "skip_flush" -> Wrap(b.block_opts.skip_flush, "boolean")
          [] OTHER -> b.options[k]]

CloudInitKeys == {"user-data", "meta-data", "network-config",
                  "user-data-path", "meta-data-path", "network-config-path",
                  "user_data"}

\* #[derive(Deserialize)] #[serde(rename_all = "kebab-case")] struct CloudInit
CloudInit_deserialize(t) ==
    IF \A k \in CloudInitKeys \ {"user_data"} : OptionOf(t, k, "string")
    THEN Some([user_data |-> Strip(t["user-data"]),
               meta_data |-> Strip(t["meta-data"]),
               network_config |-> Strip(t["network-config"]),
               user_data_path |-> Strip(t["user-data-path"]),
               meta_data_path |-> Strip(t["meta-data-path"]),
               network_config_path |-> Strip(t["network-config-path"])])
    ELSE None

\* #[derive(Serialize)] #[serde(rename_all = "kebab-case")] struct CloudInit
CloudInit_serialize(c) ==
    [k \in CloudInitKeys |->
        CASE k = "user-data" -> Wrap(c.user_data, "string")
          [] k = "meta-data" -> Wrap(c.meta_data, "string")
          [] k = "network-config" -> Wrap(c.network_config, "string")
          [] k = "user-data-path" -> Wrap(c.user_data_path, "string")
          [] k = "meta-data-path" -> Wrap(c.meta_data_path, "string")
          [] k = "network-config-path" -> Wrap(c.network_config_path, "string")
          [] OTHER -> None]

CpuidProfileKeys == {"vendor"}

\* cpuid_profile_config::CpuidProfile: the vendor, "amd" or "intel".
CpuidProfile_deserialize(t) ==
    IF HasType(t, "vendor", "string") /\ Unwrap(t["vendor"]).v \in {"amd", "intel"}
    THEN Some([vendor |-> Unwrap(t["vendor"]).v])
    ELSE None

CpuidProfile_serialize(c) == [k \in CpuidProfileKeys |-> Some(String(c.vendor))]

DeviceNames == {"vioblk0"}
BlockDevNames == {"diskA"}
CpuidNames == {"p"}

TopKeys == {"main", "dev", "block_dev", "cpuid", "cloudinit", "extra"}

\* T::deserialize for the value types of the three maps of Config.
Deserialize(T, t) ==
    CASE T = "Device" -> Device_deserialize(t)
      [] T = "BlockDevice" -> BlockDevice_deserialize(t)
      [] T = "CpuidProfile" -> CpuidProfile_deserialize(t)

\* A BTreeMap<String, T> field with #[serde(default)]: empty when the key
\* is absent, else a table every value of which deserializes to a T.
MapOk(t, k, names, T) ==
    \/ ~IsSome(t[k])
    \/ /\ HasType(t, k, "table")
       /\ \A n \in names :
             IsSome(Unwrap(t[k]).v[n]) =>
                /\ Unwrap(Unwrap(t[k]).v[n]).ty = "table"
                /\ IsSome(Deserialize(T, Unwrap(Unwrap(t[k]).v[n]).v))

MapOf(t, k, names, T) ==
    [n \in names |->
        IF IsSome(t[k]) /\ IsSome(Unwrap(t[k]).v[n])
        THEN Deserialize(T, Unwrap(Unwrap(t[k]).v[n]).v)
        ELSE None]

\* #[derive(Deserialize)] struct Config: main is required; dev, block_dev
\* and cpuid (rename) are maps, empty when absent (default); cloudinit is an
\* Option; a key that is no field is skipped.
Config_deserialize(t) ==
    IF /\ HasType(t, "main", "table")
       /\ IsSome(Main_deserialize(Unwrap(t["main"]).v))
       /\ MapOk(t, "dev", DeviceNames, "Device")
       /\ MapOk(t, "block_dev", BlockDevNames, "BlockDevice")
       /\ MapOk(t, "cpuid", CpuidNames, "CpuidProfile")
       /\ OptionOf(t, "cloudinit", "table")
       /\ IsSome(t["cloudinit"]) =>
             IsSome(CloudInit_deserialize(Unwrap(t["cloudinit"]).v))
    THEN Some([main |-> Unwrap(Main_deserialize(Unwrap(t["main"]).v)),
               devices |-> MapOf(t, "dev", DeviceNames, "Device"),
               block_devs |->
                   MapOf(t, "block_dev", BlockDevNames, "BlockDevice"),
               cpuid_profiles |->
                   MapOf(t, "cpuid", CpuidNames, "CpuidProfile"),
               cloudinit |->
                   IF IsSome(t["cloudinit"])
                   THEN CloudInit_deserialize(Unwrap(t["cloudinit"]).v)
                   ELSE None])
    ELSE None

\* T::serialize for the value types of the three maps of Config.
Serialize(T, x) ==
    CASE T = "Device" -> Device_serialize(x)
      [] T = "BlockDevice" -> BlockDevice_serialize(x)
      [] T = "CpuidProfile" -> CpuidProfile_serialize(x)

\* A BTreeMap<String, T> serialized: a table with one table per entry.
MapTable(m, names, T) ==
    Table([n \in names |->
              IF IsSome(m[n]) THEN Some(Table(Serialize(T, Unwrap(m[n])))) ELSE None])

\* #[derive(Serialize)] struct Config: main, the three maps under their
\* renamed keys (an empty map is an empty table), cloudinit unless None.
Config_serialize(c) ==
    [k \in TopKeys |->
        CASE k = "main" -> Some(Table(Main_serialize(c.main)))
          [] k = "dev" -> Some(MapTable(c.devices, DeviceNames, "Device"))
          [] k = "block_dev" ->
                Some(MapTable(c.block_devs, BlockDevNames, "BlockDevice"))
          [] k = "cpuid" ->
                Some(MapTable(c.cpuid_profiles, CpuidNames, "CpuidProfile"))
          [] k = "cloudinit" ->
                IF IsSome(c.cloudinit)
                THEN Some(Table(CloudInit_serialize(Unwrap(c.cloudinit))))
                ELSE None
          [] OTHER -> None]

\* The documents parse is handed.
MainTables ==
    {[k \in MainKeys |->
         CASE k = "name" -> name
           [] k = "cpus" -> Some(Integer(4))
           [] k = "bootrom" -> Some(String("/rom"))
           [] k = "memory" -> Some(Integer(1024))
           [] k = "cpuid_profile" -> profile
           [] k = "exit_on_halt" -> halt
           [] k = "exit_on_reboot" -> reboot
           [] k = "comment" -> Some(String("no field"))
           [] OTHER -> None] :
       name \in {None, Some(String("vm"))},
       profile \in {None, Some(String("p"))},
       halt \in {None, Some(Integer(0)), Some(Integer(3)), Some(Integer(256))},
       reboot \in {None, Some(Integer(1))}}

DeviceTables ==
    {[k \in DeviceKeys |->
         CASE k = "driver" -> driver
           [] k = "block_dev" -> bdev
           [] OTHER -> Some(String("0.4.0"))] :
       driver \in {None, Some(String("pci-virtio-block"))},
       bdev \in {None, Some(String("diskA"))}}

BlockDeviceTables ==
    {[k \in BlockDeviceKeys |->
         CASE k = "type" -> type
           [] k = "bdtype" -> stray
           [] k = "block_size" -> bsize
           [] k = "path" -> path
           [] OTHER -> None] :
       type \in {None, Some(String("file"))},
       stray \in {None, Some(String("nvme"))},
       bsize \in {None, Some(Integer(512)), Some(String("big"))},
       path \in {None, Some(String(FilePath))}}

CpuidProfileTables ==
    {[k \in CpuidProfileKeys |-> vendor] :
       vendor \in {None, Some(String("amd")), Some(String("intel"))}}

CloudInitTables ==
    {[k \in CloudInitKeys |->
         CASE k = "user-data" -> kebab
           [] k = "user_data" -> snake
           [] OTHER -> None] :
       kebab \in {None, Some(String("#cloud-config"))},
       snake \in {None, Some(String("no field"))}}

\* The value at a key of a document: absent, or a table of named tables.
MapDocs(names, tables) ==
    {None} \cup {Some(Table(m)) : m \in [names -> {None} \cup {Some(Table(t)) : t \in tables}]}

Documents ==
    {[k \in TopKeys |->
         CASE k = "main" -> main
           [] k = "dev" -> dev
           [] k = "block_dev" -> bdev
           [] k = "cpuid" -> cpuid
           [] k = "cloudinit" -> ci
           [] OTHER -> Some(String("no field"))] :
       main \in {None} \cup {Some(Table(t)) : t \in MainTables},
       dev \in MapDocs(DeviceNames, DeviceTables),
       bdev \in MapDocs(BlockDevNames, BlockDeviceTables),
       cpuid \in MapDocs(CpuidNames, CpuidProfileTables),
       ci \in {None} \cup {Some(Table(t)) : t \in CloudInitTables}}

NoDocument == [k \in TopKeys |-> None]
NoConfig == None

InitConfig ==
    /\ cf_doc \in Documents
    /\ cf_pc = "start"
    /\ cf_config = NoConfig
    /\ cf_out = NoDocument
    /\ cf_again = NoConfig

\* parse(path), lines 239-246: toml::from_str::<Config>(text)
parse ==
    /\ cf_pc = "start"
    /\ cf_config' = Config_deserialize(cf_doc)
    /\ cf_pc' = IF IsSome(cf_config') THEN "parsed" ELSE "error"
    /\ UNCHANGED <<cf_doc, cf_out, cf_again>>
    /\ UNCHANGED notConfig

\* The Config serialized to a document by its #[derive(Serialize)].
serialize ==
    /\ cf_pc = "parsed"
    /\ cf_out' = Config_serialize(Unwrap(cf_config))
    /\ cf_pc' = "serialized"
    /\ UNCHANGED <<cf_doc, cf_config, cf_again>>
    /\ UNCHANGED notConfig

\* parse of the serialized document.
parse_again ==
    /\ cf_pc = "serialized"
    /\ cf_again' = Config_deserialize(cf_out)
    /\ cf_pc' = "done"
    /\ UNCHANGED <<cf_doc, cf_config, cf_out>>
    /\ UNCHANGED notConfig

NextConfig ==
    \/ parse
    \/ serialize
    \/ parse_again

(***************************************************************************)
(* The specifications: one per component. A component that is not the one  *)
(* under study rests in one fixed initial state.                           *)
(***************************************************************************)
RestSync == data = 0 /\ InitSync
RestNoDrop == InitNoDrop
RestBackend ==
    /\ dev_options = [block_dev |-> None]
    /\ block_devs = [diskA |-> None, diskX |-> None]
    /\ InitBackend
RestCpuid ==
    /\ main_cpuid_profile = None
    /\ cpuid_profiles = [p |-> Some([vendor |-> "amd", entries |-> << >>]),
                         q |-> None]
    /\ InitCpuid

RestConfig ==
    /\ cf_doc = NoDocument
    /\ cf_pc = "start"
    /\ cf_config = NoConfig
    /\ cf_out = NoDocument
    /\ cf_again = NoConfig

NextSync ==
    \E t \in Threads :
        \/ lock_call(t)
        \/ lock(t)
        \/ try_lock(t)
        \/ get_mut(t)
        \/ into_inner(t)
        \/ fmt(t)
        \/ write(t)
        \/ unlock(t)
        \/ panic_holding(t)
        \/ unwind(t)
        \/ wait(t)
        \/ \E c \in Conds : wait_while(t, c)
        \/ notify_one(t)
        \/ notify_all(t)
        \/ spurious_wakeup(t)
        \/ wait_return(t)
        \/ wait_while_return(t)

InitSpecSync == InitSync /\ RestNoDrop /\ RestBackend /\ RestCpuid /\ RestConfig
SpecSync == InitSpecSync /\ [][NextSync]_vars

InitSpecNoDrop == RestSync /\ InitNoDrop /\ RestBackend /\ RestCpuid /\ RestConfig
SpecNoDrop == InitSpecNoDrop /\ [][NextNoDrop]_vars

InitSpecBackend == RestSync /\ RestNoDrop /\ InitBackend /\ RestCpuid /\ RestConfig
SpecBackend == InitSpecBackend /\ [][block_backend]_vars

InitSpecCpuid == RestSync /\ RestNoDrop /\ RestBackend /\ InitCpuid /\ RestConfig
SpecCpuid == InitSpecCpuid /\ [][parse_cpuid]_vars

InitSpecConfig == RestSync /\ RestNoDrop /\ RestBackend /\ RestCpuid /\ InitConfig
SpecConfig == InitSpecConfig /\ [][NextConfig]_vars

(***************************************************************************)
(* The hand-over of a value through Mutex and Condvar, under fairness.     *)
(* The guarded value starts at 0. One thread, the changer, takes the lock, *)
(* sets the value to non-zero, calls notify_all once and releases the      *)
(* lock. The others take the lock, call wait_while(guard, |v| *v == 0),    *)
(* and release the lock once wait_while has returned, again and again.     *)
(* Nobody panics, so the lock is never poisoned.                           *)
(***************************************************************************)
Changer == NThreads
WaitingThreads == Threads \ {Changer}

\* notify_all has been called since the value changed and a thread it woke
\* has not yet returned. (While the changer owns the lock no woken thread
\* returns and no thread starts to wait.)
Notified == \E w \in Threads : pc[w] = "woken" /\ wokenBy[w] = "notify"

changer_lock_call == data = 0 /\ lock_call(Changer)
changer_write == data = 0 /\ write(Changer)
changer_notify_all ==
    /\ pc[Changer] = "held" /\ data # 0
    /\ Waiters # {} /\ ~Notified
    /\ notify_all(Changer)
changer_unlock ==
    /\ data # 0
    /\ Waiters = {} \/ Notified
    /\ unlock(Changer)

waiter_lock_call(t) == t \in WaitingThreads /\ lock_call(t)
waiter_wait_while(t) == t \in WaitingThreads /\ wait_while(t, "is_zero")
waiter_unlock(t) == t \in WaitingThreads /\ unlock(t)

NextWake ==
    \/ changer_lock_call
    \/ changer_write
    \/ changer_notify_all
    \/ changer_unlock
    \/ \E t \in Threads :
          \/ waiter_lock_call(t)
          \/ lock(t)
          \/ waiter_wait_while(t)
          \/ waiter_unlock(t)
          \/ spurious_wakeup(t)
          \/ wait_while_return(t)

\* Fair scheduling: the changer's notify_all follows its write, every owner
\* of the guard releases it in the end, and a woken thread that finds the
\* lock free again and again gets it in the end. Nothing makes a thread call
\* lock or wait_while, or the changer change the value, and nothing makes a
\* wake-up happen without a notification.
FairWake ==
    /\ WF_vars(changer_notify_all)
    /\ WF_vars(changer_unlock)
    /\ \A t \in WaitingThreads :
          /\ WF_vars(waiter_unlock(t))
          /\ SF_vars(wait_while_return(t))

InitSpecWake == RestSync /\ RestNoDrop /\ RestBackend /\ RestCpuid /\ RestConfig
SpecWake == InitSpecWake /\ [][NextWake]_vars /\ FairWake

(***************************************************************************)
(* Properties of prelude.rs, checked under SpecSync.                       *)
(***************************************************************************)
AcquireOps == {"lock", "try_lock", "wait", "wait_while", "get_mut", "into_inner"}

\* No thread owns a guard of a poisoned lock, and every acquire attempt that
\* was decided on a poisoned lock panicked; try_lock alone may answer None,
\* and only while the lock is still taken.
PoisonedNeverAcquired ==
    /\ poisoned => \A t \in Threads : pc[t] # "held"
    /\ (last.op \in AcquireOps /\ last.pois) =>
          \/ last.res = "Panic"
          \/ last.op = "try_lock" /\ last.locked /\ last.res = "None"

\* C1: once a thread unwound while holding the lock, the lock stays poisoned
\* for good (nothing clears the flag), and from then on lock, try_lock on the
\* free lock, wait and wait_while on wake-up, get_mut and into_inner panic:
\* none returns a guard, the value or a recoverable error.
C1_PoisonIsFatalForGood ==
    /\ []PoisonedNeverAcquired
    /\ [][poisoned => poisoned']_vars

\* C1 witness: a thread woke up inside wait_while on a lock that was poisoned
\* meanwhile, and panicked.
C1_Witness ==
    /\ poisoned
    /\ last.op = "wait_while" /\ last.pois /\ last.res = "Panic"

\* C2: try_lock never suspends: an idle thread can always complete it in one
\* step; it answers None exactly when the lock is taken, panics exactly when
\* the lock is free and poisoned, and answers Some otherwise, so None never
\* stands for the poisoned case.
C2_TryLockNeverBlocks ==
    /\ \A t \in Threads : (alive /\ pc[t] = "idle") => ENABLED try_lock(t)
    /\ last.op = "try_lock" =>
          /\ last.res = "None" <=> last.locked
          /\ last.res = "Panic" <=> (~last.locked /\ last.pois)
          /\ last.res = "Some" <=> (~last.locked /\ ~last.pois)

\* C2 witness: try_lock answered None while another thread owned the guard.
C2_Witness ==
    /\ last.op = "try_lock" /\ last.res = "None" /\ last.locked
    /\ \E t \in Threads : pc[t] = "held" /\ holder = t

\* A thread that owns a guard owns the inner lock, and a thread suspended or
\* woken inside wait / wait_while does not.
GuardMeansLock ==
    /\ \A t \in Threads : pc[t] = "held" => holder = t
    /\ \A t \in Threads : pc[t] \in {"waiting", "woken"} => holder # t

\* C6 as stated: wait / wait_while return with the lock held, and wait_while
\* returns only in a state where the supplied predicate evaluates to true.
C6_Original ==
    /\ GuardMeansLock
    /\ (last.op = "wait_while" /\ last.res = "Guard") => last.cond

\* C6 amended: wait / wait_while release the lock while the caller is
\* suspended and return with the lock held; a return from wait follows a
\* wake-up (a notification or a spurious wake-up); wait_while returns a guard
\* only in a state where the supplied condition evaluates to false.
C6_WaitWhileReturnsWhenFalse ==
    /\ GuardMeansLock
    /\ (last.op = "wait" /\ last.res = "Guard") =>
          last.by \in {"notify", "spurious"}
    /\ (last.op = "wait_while" /\ last.res = "Guard") => ~last.cond

\* C6 witness: a thread that was suspended inside wait_while was notified and
\* got its guard back.
C6_Witness ==
    /\ last.op = "wait_while" /\ last.res = "Guard" /\ last.by = "notify"
    /\ \E t \in Threads : pc[t] = "held" /\ holder = t

\* The threads a step takes out of their suspension.
WokenInStep == {w \in Threads : pc[w] = "waiting" /\ pc'[w] = "woken"}

\* What a notification does: notify_one wakes at most one suspended waiter,
\* notify_all wakes every thread suspended at the time of the call, and a
\* thread that is already awake is not woken again.
NotifyStep ==
    \A n \in Threads :
        /\ notify_one(n) => Cardinality(WokenInStep) <= 1
        /\ notify_all(n) => WokenInStep = Waiters
        /\ (notify_one(n) \/ notify_all(n)) =>
              \A w \in Threads \ WokenInStep :
                  pc'[w] = pc[w] /\ wokenBy'[w] = wokenBy[w]

\* C7 as stated: the notifications wake as said, and a waiter returns from
\* wait only as the result of a notification.
C7_Original ==
    /\ [][NotifyStep]_vars
    /\ []((last.op = "wait" /\ last.res = "Guard") => last.by = "notify")

\* C7 amended: notify_one wakes at most one suspended waiter, notify_all
\* wakes every waiter suspended at the time of the call, no waiter is woken
\* twice by one notification, and a waiter leaves its suspension only through
\* a notification or a spurious wake-up.
C7_NotifyWakes ==
    /\ [][NotifyStep]_vars
    /\ [][\A w \in WokenInStep : wokenBy'[w] \in {"notify", "spurious"}]_vars
    /\ [](\A w \in Threads : pc[w] = "woken" => wokenBy[w] \in {"notify", "spurious"})

\* C7 witness: of two suspended waiters a notification woke one and left the
\* other suspended.
C7_Witness ==
    \E w1, w2 \in Threads :
        /\ pc[w1] = "woken" /\ wokenBy[w1] = "notify"
        /\ pc[w2] = "waiting"

\* The threads that own a guard: those a guard was returned to and has not
\* been dropped by, and a panicking thread whose guard is not yet unwound.
GuardOwners ==
    {t \in Threads : pc[t] = "held" \/ (pc[t] = "panicking" /\ holder = t)}

\* The threads suspended inside wait or wait_while, woken or not.
Suspended == {t \in Threads : pc[t] \in {"waiting", "woken"}}

\* C16: at most one thread owns a guard of the mutex, and it is the thread
\* that has the lock. A guard is handed out (by lock, by try_lock, by the
\* return of wait and wait_while) only in a step that starts with the lock
\* free and gives it to the caller; lock and try_lock answered with a guard
\* only when no thread had the lock. A thread suspended in wait or wait_while
\* does not have the lock, and gets it back only by that step.
C16_MutualExclusion ==
    /\ [](Cardinality(GuardOwners) <= 1)
    /\ [](\A t \in GuardOwners : holder = t)
    /\ [](\A t \in Suspended : holder # t /\ t \notin GuardOwners)
    /\ []((last.op \in {"lock", "try_lock"} /\ last.res \in {"Guard", "Some"})
           => ~last.locked)
    /\ [][\A t \in Threads :
             (t \notin GuardOwners /\ t \in GuardOwners')
             => holder = Free /\ holder' = t /\ GuardOwners = {}]_vars

\* C16 witness: one thread owns the guard while a second is blocked in lock()
\* and a third is suspended in wait_while, and try_lock has just answered
\* None.
C16_Witness ==
    /\ \E t, u, w \in Threads :
          /\ pc[t] = "held" /\ holder = t
          /\ pc[u] = "locking"
          /\ pc[w] = "waiting" /\ inwait[w] \in Conds
    /\ last.op = "try_lock" /\ last.res = "None" /\ last.locked

C3_ConsumeOrPanic ==
    \A m \in Markers :
        /\ consumes[m] <= 1
        /\ consumes[m] = 1 => mpanics[m] = 0
        /\ marker[m] = "forgotten" <=> consumes[m] = 1
        /\ marker[m] = "dropped" <=> mpanics[m] = 1
        /\ marker[m] = "dropped" => consumes[m] = 0
        /\ marker[m] \in {"none", "live"} => consumes[m] = 0 /\ mpanics[m] = 0

\* C3 witness: an embedded marker was consumed through its owner, another
\* embedded marker was dropped with its owner.
C3_Witness ==
    \E m1, m2 \in Markers :
        /\ embedded[m1] /\ marker[m1] = "forgotten" /\ mpanics[m1] = 0
        /\ embedded[m2] /\ marker[m2] = "dropped" /\ mpanics[m2] = 1

(***************************************************************************)
(* Properties of block_backend, checked under SpecBackend.                 *)
(***************************************************************************)
\* The device names a block device (its block_dev option is a string).
NamesDevice ==
    IsSome(dev_options.block_dev) /\ IsStr(Unwrap(dev_options.block_dev))

\* The device names a block device that config.block_devs does not hold.
UnknownName == NamesDevice /\ ~IsSome(block_devs[backend_name])

\* The device names a configured block device of the given type.
Resolves(bdtype) ==
    NamesDevice /\ IsSome(block_devs[backend_name]) /\ be.bdtype = bdtype

Logged(ev, arg) == \E i \in DOMAIN bb_log : bb_log[i] = Event(ev, arg)
TimesLogged(ev, arg) == Cardinality({i \in DOMAIN bb_log : bb_log[i] = Event(ev, arg)})

DecodePanic == Panic("called Result::unwrap() on an Err value: decode", backend_name)
CreatePanic == Panic("called Result::unwrap() on an Err value: create", backend_name)

\* The path option is a string, and `workers` is as said.
PathGiven == IsSome(be.options.path) /\ IsStr(Unwrap(be.options.path))
WorkersAbsent == ~IsSome(be.options.workers)
WorkersInteger == IsSome(be.options.workers) /\ IsInt(Unwrap(be.options.workers))
WorkersGiven == Unwrap(be.options.workers).v

\* Neither the stat of the path nor the construction of the backend failed.
NoIoFailure == ~Logged("metadata", "error") /\ bb_result # CreatePanic

\* resolved(w) of the specification.
ResolvedSpec(w) == IF 1 <= w /\ w <= MAX_FILE_WORKERS THEN w ELSE DEFAULT_WORKER_COUNT

\* C4 as stated: a `file` device with a path and a worker count w >= 0, or
\* none, always gets a worker count resolved once the stat succeeded: w when
\* 1 <= w <= 32, 8 for every other w (0 included), 8 when there is none.
C4_Original ==
    (/\ Resolves("file") /\ PathGiven
     /\ bb_pc = "done" /\ ~Logged("metadata", "error")
     /\ WorkersAbsent \/ (WorkersInteger /\ WorkersGiven >= 0))
    => /\ IsSome(bb_workers)
       /\ Unwrap(bb_workers) =
             IF WorkersAbsent THEN DEFAULT_WORKER_COUNT ELSE ResolvedSpec(WorkersGiven)

\* C4 amended: for a `file` device the resolved worker count is w when
\* 1 <= w <= 32, 8 for every explicit w above 32 and 8 when none is given; it
\* is resolved whenever the options decode and the stat succeeds, and it is
\* what the backend is constructed with. An explicit 0 is not resolved at
\* all: decoding the options fails and block_backend panics.
C4_FileWorkers ==
    Resolves("file") =>
       /\ IsSome(bb_workers) =>
             /\ WorkersAbsent \/ (WorkersInteger /\ WorkersGiven >= 1)
             /\ Unwrap(bb_workers) =
                   IF WorkersAbsent THEN DEFAULT_WORKER_COUNT
                   ELSE IF WorkersGiven <= MAX_FILE_WORKERS THEN WorkersGiven
                   ELSE DEFAULT_WORKER_COUNT
       /\ (/\ bb_pc = "done" /\ PathGiven /\ ~Logged("metadata", "error")
           /\ WorkersAbsent \/ (WorkersInteger /\ WorkersGiven >= 1))
          => IsSome(bb_workers)
       /\ bb_result.kind = "ok" => bb_result.workers = Unwrap(bb_workers)
       /\ (bb_pc = "done" /\ WorkersInteger /\ WorkersGiven = 0)
          => bb_workers = None /\ bb_result.kind = "panic"
                /\ (PathGiven => bb_result = DecodePanic)

\* C4 witness: a `file` backend was constructed with 8 workers for a
\* configured worker count above 32.
C4_Witness ==
    /\ Resolves("file") /\ bb_pc = "done" /\ bb_result.kind = "ok"
    /\ WorkersInteger /\ WorkersGiven > MAX_FILE_WORKERS
    /\ bb_result.workers = DEFAULT_WORKER_COUNT

\* C8: for a name that config.block_devs does not hold, block_backend does
\* nothing but panic with the name: nothing is decoded, stat-ed, warned about
\* or constructed, and no handle is returned.
C8_UnknownNamePanicsFirst ==
    UnknownName =>
       /\ bb_pc \in {"start", "done"}
       /\ bb_log = << >>
       /\ bb_parsed = NoParsed /\ bb_workers = None
       /\ bb_result.kind # "ok" /\ bb_result.backend = "none"
       /\ bb_pc = "done" =>
             bb_result = Panic("No configured block device named", backend_name)

\* C8 witness: the device named diskX, the table held diskA only, and
\* block_backend panicked with "diskX".
C8_Witness ==
    /\ UnknownName /\ backend_name = "diskX" /\ IsSome(block_devs.diskA)
    /\ bb_pc = "done" /\ bb_result.kind = "panic" /\ bb_result.name = "diskX"

\* C9 as stated: every `file` and `mem-async` backend is constructed with a
\* worker count in [1, 32].
C9_Original ==
    (bb_result.kind = "ok" /\ bb_result.backend \in {"file", "mem-async"})
    => bb_result.workers \in 1..MAX_FILE_WORKERS

\* C9 amended: a `file` backend is constructed with a worker count in
\* [1, 32]; a `mem-async` backend with a worker count of at least 1, which is
\* the configured value, however large, or 8 when none is configured.
C9_WorkersAfterResolution ==
    /\ (bb_result.kind = "ok" /\ bb_result.backend = "file")
       => bb_result.workers \in 1..MAX_FILE_WORKERS
    /\ (bb_result.kind = "ok" /\ bb_result.backend = "mem-async")
       => /\ bb_result.workers >= 1
          /\ bb_result.workers =
                IF WorkersAbsent THEN DEFAULT_WORKER_COUNT ELSE WorkersGiven

\* C9 witness: a `mem-async` backend was constructed with more than 32
\* workers.
C9_Witness ==
    /\ bb_result.kind = "ok" /\ bb_result.backend = "mem-async"
    /\ bb_result.workers > MAX_FILE_WORKERS

\* C10 as stated: for a `file` device an explicit worker count outside
\* [1, 32] (0 included) is never fatal: unless the stat or the construction
\* fails, a backend with 8 workers is returned; and the warning about the
\* worker count is in the log exactly when such a count was given.
C10_Original ==
    (Resolves("file") /\ PathGiven /\ bb_pc = "done") =>
       /\ (/\ WorkersInteger /\ WorkersGiven >= 0
           /\ WorkersGiven \notin 1..MAX_FILE_WORKERS
           /\ NoIoFailure)
          => /\ bb_result.kind = "ok"
             /\ bb_result.workers = DEFAULT_WORKER_COUNT
       /\ ~Logged("metadata", "error") =>
             (Logged("warn", "workers") <=>
                 /\ WorkersInteger /\ WorkersGiven >= 0
                 /\ WorkersGiven \notin 1..MAX_FILE_WORKERS)

\* C10 amended: for a `file` device an explicit worker count above 32 is
\* never fatal: unless the stat or the construction fails, a backend with 8
\* workers is returned; the warning about the worker count is logged once,
\* exactly when the worker count is resolved from an explicit value above 32,
\* and never when the value is absent or in [1, 32]. An explicit 0 is fatal
\* (the options do not decode) and nothing is logged about it.
C10_FileWorkersWarning ==
    Resolves("file") =>
       /\ (/\ bb_pc = "done" /\ PathGiven /\ WorkersInteger
           /\ WorkersGiven > MAX_FILE_WORKERS /\ NoIoFailure)
          => /\ bb_result.kind = "ok"
             /\ bb_result.workers = DEFAULT_WORKER_COUNT
       /\ TimesLogged("warn", "workers") <= 1
       /\ Logged("warn", "workers") <=>
             /\ IsSome(bb_workers)
             /\ WorkersInteger /\ WorkersGiven > MAX_FILE_WORKERS
       /\ (bb_pc = "done" /\ WorkersInteger /\ WorkersGiven = 0)
          => bb_result.kind = "panic" /\ ~Logged("warn", "workers")

\* C10 witness: a worker count above 32 was warned about and the backend was
\* returned all the same.
C10_Witness ==
    /\ Resolves("file") /\ bb_pc = "done" /\ bb_result.kind = "ok"
    /\ WorkersInteger /\ WorkersGiven > MAX_FILE_WORKERS
    /\ Logged("warn", "workers")

\* The advisory of config.rs:195.
RawAdvisory == Logged("warn", "standard device rather than raw")

\* The stat of the path succeeded and found this kind of object.
Found(ft) == Logged("metadata", ft)

\* The options of a `file` device decode: a path, and no worker count or one
\* of at least 1.
FileOptionsDecode ==
    PathGiven /\ (WorkersAbsent \/ (WorkersInteger /\ WorkersGiven >= 1))

UnrecognizedKey(bdtype) ==
    \/ IsSome(be.options.bogus)
    \/ bdtype = "file" /\ IsSome(be.options.size)
    \/ bdtype = "mem-async" /\ IsSome(be.options.path)

\* The options of a `mem-async` device decode: a size of at least 0, and no
\* worker count or one of at least 0.
MemAsyncOptionsDecode ==
    /\ IsSome(be.options.size) /\ IsInt(Unwrap(be.options.size))
    /\ Unwrap(be.options.size).v >= 0
    /\ WorkersAbsent \/ (WorkersInteger /\ WorkersGiven >= 0)

\* C12 as stated: no backend is returned for a `file` or `mem-async` block
\* device whose option map has a key its parser does not recognize.
C12_Original ==
    \A bdtype \in {"file", "mem-async"} :
       (Resolves(bdtype) /\ UnrecognizedKey(bdtype)) => bb_result.kind # "ok"

\* C12 amended: the parsers of `file` and `mem-async` skip the keys they do
\* not recognize. Decoding succeeds exactly when the recognized keys are
\* present as required and of the required type, whatever other keys the
\* option map holds, and a device with an unrecognized key gets its backend
\* like one without.
C12_UnknownKeysIgnored ==
    /\ (Resolves("file") /\ Logged("decode", "FileConfig"))
       => /\ bb_parsed.ok <=> FileOptionsDecode
          /\ ~bb_parsed.ok => bb_result = DecodePanic
          /\ (bb_pc = "done" /\ FileOptionsDecode /\ NoIoFailure)
             => bb_result.kind = "ok"
    /\ (Resolves("mem-async") /\ Logged("decode", "MemAsyncConfig"))
       => /\ bb_parsed.ok <=> MemAsyncOptionsDecode
          /\ ~bb_parsed.ok => bb_result = DecodePanic
          /\ (/\ bb_pc = "done" /\ MemAsyncOptionsDecode /\ NoIoFailure
              /\ WorkersAbsent \/ WorkersGiven >= 1)
             => bb_result.kind = "ok"

\* C12 witness: a `file` backend was returned for an option map with an
\* unrecognized key.
C12_Witness ==
    /\ Resolves("file") /\ IsSome(be.options.bogus)
    /\ bb_parsed.ok /\ bb_pc = "done" /\ bb_result.kind = "ok"

\* The three discriminators block_backend knows.
KnownTypes == {"file", "mem-async", "cloudinit"}

\* A step of block_backend has failed: the name or its lookup, the decoding
\* of the options, the stat of the path, the worker count of a `mem-async`
\* device, the construction of the backend, or the match on the discriminator.
StepFailed == bb_result.kind = "panic"

\* C13: block_backend returns a handle and a name only at its end, for a
\* device of type `file`, `mem-async` or `cloudinit` all of whose steps
\* succeeded (the options decoded, the stat succeeded, the backend of that
\* type was constructed), and the name is the name looked up. Any other
\* type, the empty one of an absent `type` included, panics before anything
\* is done. A failed step ends block_backend with a panic and no handle, and
\* nothing follows it.
C13_AllOrNothing ==
    /\ [](bb_result.kind = "ok" =>
             /\ bb_pc = "done"
             /\ NamesDevice /\ IsSome(block_devs[backend_name])
             /\ be.bdtype \in KnownTypes
             /\ bb_result.backend = be.bdtype
             /\ bb_result.name = backend_name
             /\ Logged("create", be.bdtype)
             /\ be.bdtype \in {"file", "mem-async"} => bb_parsed.ok
             /\ be.bdtype = "file" =>
                   /\ \E ft \in FileTypes : Found(ft)
                   /\ ~Found("error")
                   /\ IsSome(bb_workers))
    /\ [](\A bdtype \in BdTypes \ KnownTypes :
             (Resolves(bdtype) /\ bb_pc = "done")
             => /\ bb_result = Panic("unrecognized block dev type", bdtype)
                /\ bb_log = << >>)
    /\ []((bb_pc = "done") <=> (bb_result.kind \in {"ok", "panic"}))
    /\ [](StepFailed => bb_pc = "done" /\ bb_result.backend = "none")
    /\ []((Found("error") \/ (bb_pc # "match" /\ Resolves("file") /\ ~bb_parsed.ok)
            \/ (bb_pc \notin {"match", "mem_async_create"}
                  /\ Resolves("mem-async") /\ ~IsSome(bb_workers)))
           => bb_pc = "start" \/ StepFailed)
    /\ [][StepFailed => bb_result' = bb_result /\ bb_log' = bb_log]_vars

\* C13 witness: a device whose block device has no `type` was resolved and
\* block_backend panicked on the empty discriminator.
C13_Witness ==
    /\ Resolves("") /\ bb_pc = "done"
    /\ bb_result = Panic("unrecognized block dev type", "")

\* The size option of a `mem-async` device is an integer of at least 0.
SizeGiven ==
    /\ IsSome(be.options.size) /\ IsInt(Unwrap(be.options.size))
    /\ Unwrap(be.options.size).v >= 0

\* Some warning is in the log.
Warned == \E i \in DOMAIN bb_log : bb_log[i].ev = "warn"

\* C18 as stated: for a `mem-async` device with a valid size, resolution
\* succeeds for every explicit worker count (and for none), unless the
\* construction itself fails; the backend gets 8 workers when none is
\* configured and the configured number otherwise, and nothing is warned about.
C18_Original ==
    (/\ Resolves("mem-async") /\ SizeGiven /\ bb_pc = "done"
     /\ WorkersAbsent \/ (WorkersInteger /\ WorkersGiven >= 0)
     /\ bb_result # CreatePanic)
    => /\ bb_result.kind = "ok"
       /\ bb_result.workers =
             IF WorkersAbsent THEN DEFAULT_WORKER_COUNT ELSE WorkersGiven
       /\ ~Warned

\* C18 amended: for a `mem-async` device with a valid size, the worker count
\* is 8 when none is configured and the configured number for every explicit
\* number of at least 1, however large, with no warning; then resolution
\* succeeds unless the construction itself fails. An explicit 0 decodes, but
\* is fatal: block_backend panics on it before the backend is constructed.
C18_MemAsyncWorkers ==
    (Resolves("mem-async") /\ SizeGiven) =>
       /\ ~Warned
       /\ (/\ bb_pc = "done"
           /\ WorkersAbsent \/ (WorkersInteger /\ WorkersGiven >= 1))
          => /\ bb_workers =
                   Some(IF WorkersAbsent THEN DEFAULT_WORKER_COUNT ELSE WorkersGiven)
             /\ Logged("create", "mem-async")
             /\ bb_result # CreatePanic
                => /\ bb_result.kind = "ok"
                   /\ bb_result.backend = "mem-async"
                   /\ bb_result.workers = Unwrap(bb_workers)
       /\ (bb_pc = "done" /\ WorkersInteger /\ WorkersGiven = 0)
          => /\ bb_parsed.ok /\ bb_parsed.workers = Some(0)
             /\ bb_workers = None
             /\ ~Logged("create", "mem-async")
             /\ bb_result = Panic("called Option::unwrap() on a None value",
                                  backend_name)

\* C18 witness: a `mem-async` backend was returned with the configured worker
\* count, one above the limit of the `file` arm, and nothing was warned about.
C18_Witness ==
    /\ Resolves("mem-async") /\ SizeGiven /\ bb_pc = "done"
    /\ WorkersInteger /\ WorkersGiven = MAX_FILE_WORKERS + 1
    /\ bb_result.kind = "ok" /\ bb_result.workers = WorkersGiven
    /\ ~Warned

(***************************************************************************)
(* Properties of parse_cpuid, checked under SpecCpuid.                     *)
(***************************************************************************)
\* The (leaf, subleaf) pair of an entry.
Pair(entry) == <<entry.func, entry.idx>>

\* All pairs of the entry list are pairwise distinct.
PairwiseDistinct(E) ==
    \A i, j \in DOMAIN E : i # j => Pair(E[i]) # Pair(E[j])

\* The entry at j has the pair of an earlier entry.
Collides(E, j) == \E i \in 1..(j - 1) : Pair(E[i]) = Pair(E[j])

C14_NoOverrideOnlyWhenUnconfigured ==
    cp_pc = "done" =>
       /\ cp_result.kind = "Ok(None)" <=> main_cpuid_profile = None
       /\ IsSome(main_cpuid_profile) => cp_result.kind \in {"Ok(Some)", "Err"}

\* What a set holds for the first n entries of E: for each the key
\* (leaf, subleaf) with the four register values of the entry.
Mappings(E, n) ==
    {[ident |-> [leaf |-> E[i].func, subleaf |-> E[i].idx],
      values |-> [eax |-> E[i].values[1], ebx |-> E[i].values[2],
                  ecx |-> E[i].values[3], edx |-> E[i].values[4]]] : i \in 1..n}

\* The vendor tag of a set for a profile.
VendorTag(profile) ==
    IF profile.vendor = "amd" THEN "CpuidVendor::Amd" ELSE "CpuidVendor::Intel"

\* No two mappings of the set have the same key.
UniqueKeys(set) ==
    \A a, b \in set.map : a.ident = b.ident => a = b

\* C19: parse_cpuid works on a set that starts empty with the vendor of the
\* profile and takes the entries one by one in declared order; while it has
\* not failed, the set holds exactly the mappings of the entries taken so
\* far. The set it returns on success has the vendor of the profile and
\* exactly one key per entry of the profile, mapped to the four register
\* values of that entry, and no key twice.
C19_SetHoldsEveryEntry ==
    /\ [](IsSome(cpuid_profile) =>
             LET profile == Unwrap(cpuid_profile)
                 E == profile.entries
             IN  /\ (cp_pc = "loop") =>
                       /\ cp_entries = E
                       /\ cp_next \in 1..(Len(E) + 1)
                       /\ cp_set.vendor = VendorTag(profile)
                       /\ cp_set.map = Mappings(E, cp_next - 1)
                       /\ Cardinality(cp_set.map) = cp_next - 1
                 /\ (cp_pc = "done" /\ cp_result.kind = "Ok(Some)") =>
                       /\ cp_result.set.vendor = VendorTag(profile)
                       /\ cp_result.set.map = Mappings(E, Len(E))
                       /\ Cardinality(cp_result.set.map) = Len(E)
                       /\ UniqueKeys(cp_result.set))
    /\ [][cp_pc = "loop" =>
             \/ cp_pc' = "loop" /\ cp_next' = cp_next + 1
             \/ cp_pc' = "done" /\ cp_next' = cp_next]_vars

\* C19 witness: parse_cpuid returned a set of three keys for an Intel profile
\* of three entries, two of them at the same leaf.
C19_Witness ==
    /\ cp_pc = "done" /\ cp_result.kind = "Ok(Some)"
    /\ IsSome(cpuid_profile) /\ Unwrap(cpuid_profile).vendor = "intel"
    /\ Len(cp_entries) = 3 /\ Cardinality(cp_result.set.map) = 3
    /\ cp_entries[1].func = cp_entries[2].func
    /\ cp_result.set.vendor = "CpuidVendor::Intel"

====
